---- MODULE Spec2Model ----
(***************************************************************************)
(* Model of library-generator: the music aggregation of parser.rs over     *)
(* the hierarchy of library.rs and the records of track.rs, and the Steam  *)
(* library cache of steam.rs.                                              *)
(*                                                                         *)
(* A Rust String is a sequence of character codes (ASCII), so that         *)
(* concatenation, comparison and numeric parsing are computed as the code  *)
(* computes them.  A HashMap is a function whose DOMAIN is its key set.    *)
(***************************************************************************)
EXTENDS Integers, Sequences, FiniteSets, TLC

VARIABLES
    tracks,     \* parse_file: the records of the batch read so far, in input order
    artists,    \* Parser.artists : HashMap<String, Artist>
    albums,     \* Parser.albums  : HashMap<String, Album>
    pc,         \* parse_file: "loop" inside the for loop, "done" after Ok(..)
    library,    \* parse_file: the returned Library (self.artists.clone())
    cache,      \* the file CACHE_FILE: whether it exists, and its JSON text
    fetches,    \* the HTTP calls made to the Steam API so far
    result,     \* what the last call of fetch_library / clear_cache returned
    lastOp,     \* the last SteamClient operation called
    entry,      \* the cache, the call count and the environment at its start
    run,        \* main: the last run's flags, environment variables and outcome
    site        \* Generator: the games index and game pages written

parserVars == <<tracks, artists, albums, pc, library>>
steamVars == <<cache, fetches, result, lastOp, entry>>
mainVars == <<run, site>>
vars == <<tracks, artists, albums, pc, library,
          cache, fetches, result, lastOp, entry, run, site>>

(***************************************************************************)
(* Bounds                                                                  *)
(***************************************************************************)
\* Longest batch (number of records of the input file).
MaxBatch == 3
\* Most HTTP calls to the Steam API in one behaviour.
MaxFetches == 2

(***************************************************************************)
(* Strings                                                                 *)
(***************************************************************************)
EmptyStr == <<>>
Dash == <<45>>
Plus == <<43>>
Str0 == <<48>>
Str1 == <<49>>
Str2 == <<50>>
Str5 == <<53>>
StrX == <<88>>
StrY == <<89>>
StrZ == <<90>>
StrA == <<97>>
StrB == <<98>>
StrG == <<103>>
StrBad == <<120>>

\* str::cmp: lexicographic comparison of the bytes, a < b.
StrLess(a, b) ==
    \E i \in 1..Len(b) :
        /\ \A j \in 1..(i - 1) : j <= Len(a) /\ a[j] = b[j]
        /\ (i > Len(a) \/ a[i] < b[i])

IsDigit(c) == c >= 48 /\ c <= 57

RECURSIVE DecimalValue(_)
DecimalValue(s) ==
    IF s = <<>> THEN 0
    ELSE 10 * DecimalValue(SubSeq(s, 1, Len(s) - 1)) + (s[Len(s)] - 48)

\* The digits of u32::MAX, 4294967295.
U32MaxDigits == <<52, 50, 57, 52, 57, 54, 55, 50, 57, 53>>

RECURSIVE StripZeros(_)
StripZeros(s) ==
    IF Len(s) > 1 /\ s[1] = 48 THEN StripZeros(Tail(s)) ELSE s

\* Whether a digit string denotes a value that fits u32.
FitsU32(digits) ==
    LET d == StripZeros(digits)
    IN  \/ Len(d) < Len(U32MaxDigits)
        \/ (Len(d) = Len(U32MaxDigits) /\ ~StrLess(U32MaxDigits, d))

\* str::parse::<u32>: an optional '+', then one or more digits, value at
\* most u32::MAX; anything else is Err.
ParseU32(s) ==
    LET digits == IF Len(s) > 0 /\ s[1] = 43 THEN Tail(s) ELSE s
        ok == /\ Len(digits) > 0
              /\ \A i \in 1..Len(digits) : IsDigit(digits[i])
              /\ FitsU32(digits)
    IN  IF ok THEN [ok |-> TRUE, val |-> DecimalValue(digits)]
        ELSE [ok |-> FALSE, val |-> 0]

\* Result::unwrap_or
UnwrapOr(r, default) == IF r.ok THEN r.val ELSE default

(***************************************************************************)
(* Vec::sort_by / sort_by_key: a stable sort.  less[i][j] tells whether    *)
(* the element at i compares less than the element at j.  The element at i *)
(* goes after every element less than it and after every earlier element   *)
(* that compares equal to it.                                              *)
(***************************************************************************)
StableSort(s, less) ==
    LET Rank(i) == 1 + Cardinality({j \in 1..Len(s) :
                        \/ less[j][i]
                        \/ (~less[i][j] /\ j < i)})
    IN  [p \in 1..Len(s) |-> s[CHOOSE i \in 1..Len(s) : Rank(i) = p]]

(***************************************************************************)
(* track.rs                                                                *)
(***************************************************************************)
\* Track::is_empty
is_empty(track) == track.title = EmptyStr /\ track.artist = EmptyStr

\* Track::has_album
has_album(track) == track.album # EmptyStr

\* Track::track_number
track_number(track) == UnwrapOr(ParseU32(track.track), 0)

(***************************************************************************)
(* library.rs                                                              *)
(***************************************************************************)
\* Album::new
AlbumNew(id, title, artist) ==
    [id |-> id, title |-> title, artist |-> artist, year |-> EmptyStr,
     tracktotal |-> 0, disctotal |-> 1, genre |-> EmptyStr, tracks |-> <<>>]

\* The sort key of Album::add_track: (disc parsed or 1, track_number).
TrackSortKey(t) == <<UnwrapOr(ParseU32(t.disc), 1), track_number(t)>>

\* Ord on (u32, u32)
PairLess(a, b) == a[1] < b[1] \/ (a[1] = b[1] /\ a[2] < b[2])

TrackKeyLess(a, b) == PairLess(TrackSortKey(a), TrackSortKey(b))

\* Album::add_track without its sort.
AlbumAddTrack_NoSort(album, track) ==
    [album EXCEPT !.tracks = Append(album.tracks, track)]

\* Album::add_track replacing a track that has the same disc and number.
AlbumAddTrack_ReplaceSameNumber(album, track) ==
    LET kept == SelectSeq(album.tracks,
                    LAMBDA t : TrackSortKey(t) # TrackSortKey(track))
        pushed == Append(kept, track)
        less == [i \in 1..Len(pushed) |-> [j \in 1..Len(pushed) |->
                    TrackKeyLess(pushed[i], pushed[j])]]
    IN  [album EXCEPT !.tracks = StableSort(pushed, less)]

\* Album::add_track also taking year, genre and tracktotal from the track.
AlbumAddTrack_Reseed(album, track) ==
    LET pushed == Append(album.tracks, track)
        less == [i \in 1..Len(pushed) |-> [j \in 1..Len(pushed) |->
                    TrackKeyLess(pushed[i], pushed[j])]]
    IN  [album EXCEPT !.tracks = StableSort(pushed, less),
                      !.year = track.year,
                      !.genre = track.genre,
                      !.tracktotal = UnwrapOr(ParseU32(track.tracktotal), 0)]

\* Album::add_track
AlbumAddTrack(album, track) ==
    LET pushed == Append(album.tracks, track)
        less == [i \in 1..Len(pushed) |-> [j \in 1..Len(pushed) |->
                    TrackKeyLess(pushed[i], pushed[j])]]
    IN  [album EXCEPT !.tracks = StableSort(pushed, less)]

\* Artist::new
ArtistNew(name) == [name |-> name, albums |-> <<>>, tracks |-> <<>>]

\* The comparator of Artist::add_album: year, then title.
AlbumLess(a, b) ==
    StrLess(a.year, b.year) \/ (a.year = b.year /\ StrLess(a.title, b.title))

\* Artist::add_album
ArtistAddAlbum(artist, album) ==
    LET pushed == Append(artist.albums, album)
        less == [i \in 1..Len(pushed) |-> [j \in 1..Len(pushed) |->
                    AlbumLess(pushed[i], pushed[j])]]
    IN  [artist EXCEPT !.albums = StableSort(pushed, less)]

TitleLess(a, b) == StrLess(a.title, b.title)

\* Artist::add_track without its sort.
ArtistAddTrack_NoSort(artist, track) ==
    [artist EXCEPT !.tracks = Append(artist.tracks, track)]

\* Artist::add_track keeping one track per title.
ArtistAddTrack_Dedup(artist, track) ==
    IF \E k \in 1..Len(artist.tracks) : artist.tracks[k].title = track.title
    THEN artist
    ELSE LET pushed == Append(artist.tracks, track)
             less == [i \in 1..Len(pushed) |-> [j \in 1..Len(pushed) |->
                         TitleLess(pushed[i], pushed[j])]]
         IN  [artist EXCEPT !.tracks = StableSort(pushed, less)]

\* Artist::add_track
ArtistAddTrack(artist, track) ==
    LET pushed == Append(artist.tracks, track)
        less == [i \in 1..Len(pushed) |-> [j \in 1..Len(pushed) |->
                    TitleLess(pushed[i], pushed[j])]]
    IN  [artist EXCEPT !.tracks = StableSort(pushed, less)]

(***************************************************************************)
(* parser.rs                                                               *)
(***************************************************************************)
\* process_track: the owning artist name.
ArtistName(track) ==
    IF track.albumartist = EmptyStr THEN track.artist ELSE track.albumartist

\* process_track: format!("{}-{}", track.album_id, track.album)
AlbumKey(track) == track.album_id \o Dash \o track.album

\* process_track: the Album the side-index entry is created with.
SeededAlbum(track) ==
    LET total == ParseU32(track.tracktotal)
        album == AlbumNew(track.album_id, track.album, ArtistName(track))
    IN  [album EXCEPT !.year = track.year,
                      !.genre = track.genre,
                      !.tracktotal = IF total.ok THEN total.val ELSE @]

\* HashMap::entry(key).or_insert_with(value)
OrInsert(map, key, value) ==
    IF key \in DOMAIN map THEN map ELSE map @@ (key :> value)

\* process_track: artist.albums.iter_mut().find(|a| a.id == track.album_id),
\* the index of the first match or 0.
FindAlbum(artist, album_id) ==
    LET hits == {i \in 1..Len(artist.albums) : artist.albums[i].id = album_id}
    IN  IF hits = {} THEN 0 ELSE CHOOSE i \in hits : \A j \in hits : i <= j

\* process_track: the artist's entry after the album was updated.
SyncArtistAlbum(artist, album, album_id) ==
    LET i == FindAlbum(artist, album_id)
    IN  IF i # 0 THEN [artist EXCEPT !.albums[i] = album]
        ELSE ArtistAddAlbum(artist, album)

\* process_track without the return on an empty artist name.
ProcessTrack_NoEmptyCheck(track, arts, albs) ==
    LET artist_name == ArtistName(track)
        arts1 == OrInsert(arts, artist_name, ArtistNew(artist_name))
    IN  IF has_album(track)
        THEN LET album_key == AlbumKey(track)
                 albs1 == OrInsert(albs, album_key, SeededAlbum(track))
                 album == AlbumAddTrack(albs1[album_key], track)
             IN  <<[arts1 EXCEPT ![artist_name] =
                        SyncArtistAlbum(@, album, track.album_id)],
                   [albs1 EXCEPT ![album_key] = album]>>
        ELSE <<[arts1 EXCEPT ![artist_name] = ArtistAddTrack(@, track)], albs>>

\* process_track: the maps after the record, <<artists, albums>>.
ProcessTrack(track, arts, albs) ==
    LET artist_name == ArtistName(track) IN
    IF artist_name = EmptyStr THEN <<arts, albs>>
    ELSE
        LET arts1 == OrInsert(arts, artist_name, ArtistNew(artist_name)) IN
        IF has_album(track)
        THEN LET album_key == AlbumKey(track)
                 albs1 == OrInsert(albs, album_key, SeededAlbum(track))
                 album == AlbumAddTrack(albs1[album_key], track)
             IN  <<[arts1 EXCEPT ![artist_name] =
                        SyncArtistAlbum(@, album, track.album_id)],
                   [albs1 EXCEPT ![album_key] = album]>>
        ELSE <<[arts1 EXCEPT ![artist_name] = ArtistAddTrack(@, track)], albs>>

(***************************************************************************)
(* The input records.  Fields of Track that no code of the parser reads    *)
(* (length, bitrate, path, ...) are carried unchanged and left out; id is  *)
(* the record's position in the batch, so that every record is told apart. *)
(***************************************************************************)
IdOf(n) == <<48 + n>>

\* Title, numbering and album attributes of a record.
ShapeA ==
    [title |-> StrA, disc |-> Str1, track |-> Str1,
     year |-> EmptyStr, genre |-> EmptyStr, tracktotal |-> StrBad]

ShapeB ==
    [title |-> StrB, disc |-> EmptyStr, track |-> Str2,
     year |-> Str2, genre |-> StrG, tracktotal |-> Str5]

ShapeC ==
    [title |-> EmptyStr, disc |-> Str2, track |-> StrBad,
     year |-> EmptyStr, genre |-> EmptyStr, tracktotal |-> EmptyStr]

\* (albumId, album title) of the records with an album.
AlbumIds == { <<Str1, StrY>>, <<Str1, StrZ>>, <<Str2, StrY>> }

MkTrack(shape, artist, albumartist, album_id, album) ==
    [id |-> EmptyStr, title |-> shape.title, artist |-> artist,
     album |-> album, albumartist |-> albumartist, year |-> shape.year,
     genre |-> shape.genre, track |-> shape.track,
     tracktotal |-> shape.tracktotal, disc |-> shape.disc,
     album_id |-> album_id]

LooseRecords ==
    { MkTrack(s, a, EmptyStr, EmptyStr, EmptyStr) :
        s \in {ShapeA, ShapeB, ShapeC}, a \in {EmptyStr, StrX} }
    \cup
    { MkTrack(ShapeA, a, StrZ, EmptyStr, EmptyStr) : a \in {EmptyStr, StrX} }

AlbumRecords ==
    { MkTrack(s, StrX, aa, k[1], k[2]) :
        s \in {ShapeA, ShapeB}, aa \in {EmptyStr, StrZ}, k \in AlbumIds }
    \cup
    { MkTrack(ShapeC, StrX, EmptyStr, Str1, StrY) }

Records == LooseRecords \cup AlbumRecords

\* Records whose album_id is empty or ends in the separator and whose album
\* starts with it, and one record that is_empty.
Str1Dash == <<49, 45>>
StrDashY == <<45, 89>>

KeyRecords ==
    { MkTrack(ShapeA, StrX, aa, id, al) :
        aa \in {EmptyStr, StrZ}, id \in {EmptyStr, Str1, Str1Dash},
        al \in {StrY, StrDashY} }
    \cup
    { MkTrack(ShapeC, EmptyStr, EmptyStr, EmptyStr, EmptyStr) }

(***************************************************************************)
(* game.rs.  A JSON object is a function from the names of the fields it   *)
(* holds to their values; a JSON document is [kind, game_count, items]:    *)
(* kind "array" (the cache: an array of objects), "envelope" (the API's    *)
(* { response: { game_count, games } }) or "malformed" (no JSON of the     *)
(* expected shape, a truncated file included).                             *)
(***************************************************************************)
\* SteamGame: the fields without #[serde(default)].
RequiredGameFields == {"appid", "name", "playtime_forever", "rtime_last_played"}

\* SteamGame, derive(Deserialize): Err when a required field is missing,
\* the default for a missing #[serde(default)] field.
DeserializeGame(obj) ==
    IF ~(RequiredGameFields \subseteq DOMAIN obj)
    THEN [ok |-> FALSE, val |-> <<>>]
    ELSE [ok |-> TRUE,
          val |-> [appid |-> obj.appid,
                   name |-> obj.name,
                   playtime_forever |-> obj.playtime_forever,
                   img_icon_url |-> IF "img_icon_url" \in DOMAIN obj
                                    THEN obj.img_icon_url ELSE EmptyStr,
                   rtime_last_played |-> obj.rtime_last_played,
                   playtime_linux_forever |->
                       IF "playtime_linux_forever" \in DOMAIN obj
                       THEN obj.playtime_linux_forever ELSE 0,
                   playtime_deck_forever |->
                       IF "playtime_deck_forever" \in DOMAIN obj
                       THEN obj.playtime_deck_forever ELSE 0]]

\* Vec<SteamGame>, Deserialize: every element must deserialize.
DeserializeGames(items) ==
    IF \A i \in 1..Len(items) : DeserializeGame(items[i]).ok
    THEN [ok |-> TRUE, val |-> [i \in 1..Len(items) |-> DeserializeGame(items[i]).val]]
    ELSE [ok |-> FALSE, val |-> <<>>]

\* SteamGame's Serialize leaving out rtime_last_played.
SerializeGame_NoLastPlayed(game) ==
    [f \in {"appid", "name", "playtime_forever", "img_icon_url",
            "playtime_linux_forever", "playtime_deck_forever"} |-> game[f]]

\* SteamGame, derive(Serialize): every field is written.
SerializeGame(game) ==
    [f \in {"appid", "name", "playtime_forever", "img_icon_url",
            "rtime_last_played", "playtime_linux_forever",
            "playtime_deck_forever"} |-> game[f]]

\* serde_json::to_string_pretty(library)
SerializeGames(games) ==
    [kind |-> "array", game_count |-> 0,
     items |-> [i \in 1..Len(games) |-> SerializeGame(games[i])]]

\* SteamGame::is_empty
game_is_empty(game) == game.name = EmptyStr

(***************************************************************************)
(* steam.rs                                                                *)
(***************************************************************************)
NoDoc == [kind |-> "none", game_count |-> 0, items |-> <<>>]
Malformed == [kind |-> "malformed", game_count |-> 0, items |-> <<>>]
NoFile == [exists |-> FALSE, doc |-> NoDoc]
FileOf(doc) == [exists |-> TRUE, doc |-> doc]

Ok(games) == [status |-> "ok", games |-> games, err |-> "none"]
Err(what) == [status |-> "err", games |-> <<>>, err |-> what]
NoResult == [status |-> "none", games |-> <<>>, err |-> "none"]

\* fetch_from_api: one HTTP call, then the body into SteamLibraryResponse.
FetchFromApi(resp) ==
    IF resp.status # "ok" THEN Err("http")
    ELSE IF resp.body.kind # "envelope" THEN Err("json")
    ELSE LET games == DeserializeGames(resp.body.items)
         IN  IF games.ok THEN Ok(games.val) ELSE Err("json")

\* load_from_cache: File::open, then serde_json::from_reader.
LoadFromCache(file, env) ==
    IF ~env.open THEN Err("io")
    ELSE IF file.doc.kind # "array" THEN Err("json")
    ELSE LET games == DeserializeGames(file.doc.items)
         IN  IF games.ok THEN Ok(games.val) ELSE Err("json")

\* save_to_cache: File::create, then write_all; [result, file].  A failed
\* create leaves the file as it was, a failed write leaves the created file
\* with a part of the text.
SaveToCache(games, file, env) ==
    IF ~env.create THEN [result |-> Err("io"), file |-> file]
    ELSE IF ~env.write THEN [result |-> Err("io"), file |-> FileOf(Malformed)]
    ELSE [result |-> Ok(<<>>), file |-> FileOf(SerializeGames(games))]

\* fetch_library without the cache lookup: it fetches and saves every time.
FetchLibrary_AlwaysFetch(file, env) ==
    LET fetched == FetchFromApi(env.resp) IN
    IF fetched.status = "err"
    THEN [result |-> fetched, file |-> file, net |-> 1]
    ELSE LET saved == SaveToCache(fetched.games, file, env) IN
         IF saved.result.status = "err"
         THEN [result |-> saved.result, file |-> saved.file, net |-> 1]
         ELSE [result |-> fetched, file |-> saved.file, net |-> 1]

\* fetch_library saving an empty library when the fetch failed, instead of
\* returning before save_to_cache.
FetchLibrary_SaveOnFailure(file, env) ==
    IF file.exists
    THEN [result |-> LoadFromCache(file, env), file |-> file, net |-> 0]
    ELSE LET fetched == FetchFromApi(env.resp)
             saved == SaveToCache(fetched.games, file, env)
         IN  IF fetched.status = "err"
             THEN [result |-> fetched, file |-> saved.file, net |-> 1]
             ELSE IF saved.result.status = "err"
             THEN [result |-> saved.result, file |-> saved.file, net |-> 1]
             ELSE [result |-> fetched, file |-> saved.file, net |-> 1]

\* fetch_library: [result, file, net], net the HTTP calls it made.
FetchLibrary(file, env) ==
    IF file.exists
    THEN [result |-> LoadFromCache(file, env), file |-> file, net |-> 0]
    ELSE LET fetched == FetchFromApi(env.resp) IN
         IF fetched.status = "err"
         THEN [result |-> fetched, file |-> file, net |-> 1]
         ELSE LET saved == SaveToCache(fetched.games, file, env) IN
              IF saved.result.status = "err"
              THEN [result |-> saved.result, file |-> saved.file, net |-> 1]
              ELSE [result |-> fetched, file |-> saved.file, net |-> 1]

\* clear_cache reporting success without removing the file.
ClearCache_NoRemove(file, env) ==
    [result |-> Ok(<<>>), file |-> file]

\* clear_cache: [result, file].
ClearCache(file, env) ==
    IF file.exists
    THEN IF env.remove THEN [result |-> Ok(<<>>), file |-> NoFile]
         ELSE [result |-> Err("io"), file |-> file]
    ELSE [result |-> Ok(<<>>), file |-> file]

(***************************************************************************)
(* The environment of the Steam operations: what the API answers and       *)
(* whether each file operation succeeds.                                   *)
(***************************************************************************)
\* {appid 10, name "Game", playtime_forever 120} of the API, with and
\* without the last-played time.
GameObj10 ==
    [f \in {"appid", "name", "playtime_forever", "rtime_last_played"} |->
        CASE f = "appid" -> 10
          [] f = "name" -> StrG
          [] f = "playtime_forever" -> 120
          [] OTHER -> 0]

GameObj10Short ==
    [f \in {"appid", "name", "playtime_forever"} |->
        CASE f = "appid" -> 10
          [] f = "name" -> StrG
          [] OTHER -> 120]

\* A game without a name, with an icon and a Linux playtime.
GameObj20 ==
    [f \in {"appid", "name", "playtime_forever", "rtime_last_played",
            "img_icon_url", "playtime_linux_forever"} |->
        CASE f = "appid" -> 20
          [] f = "name" -> EmptyStr
          [] f = "playtime_forever" -> 300
          [] f = "rtime_last_played" -> 5
          [] f = "img_icon_url" -> StrA
          [] OTHER -> 30]

Envelope(items) == [kind |-> "envelope", game_count |-> Len(items), items |-> items]

ApiResponses ==
    { [status |-> "error", body |-> NoDoc],
      [status |-> "ok", body |-> Malformed],
      [status |-> "ok", body |-> Envelope(<<GameObj10Short>>)],
      [status |-> "ok", body |-> Envelope(<<>>)],
      [status |-> "ok", body |-> Envelope(<<GameObj10>>)],
      [status |-> "ok", body |-> Envelope(<<GameObj10, GameObj20>>)] }

Envs ==
    [resp : ApiResponses, open : BOOLEAN, create : BOOLEAN, write : BOOLEAN,
     remove : BOOLEAN]

NoEnv ==
    [resp |-> [status |-> "error", body |-> NoDoc], open |-> TRUE,
     create |-> TRUE, write |-> TRUE, remove |-> TRUE]

\* The cache files a run may find: none, one an earlier run wrote, one
\* written by hand without the defaulted fields, one that is no JSON array.
InitialFiles ==
    { NoFile,
      FileOf(SerializeGames(DeserializeGames(<<GameObj20, GameObj10>>).val)),
      FileOf([kind |-> "array", game_count |-> 0, items |-> <<GameObj10>>]),
      FileOf(Malformed) }

NoEntry == [cache |-> NoFile, fetches |-> 0, env |-> NoEnv]

(***************************************************************************)
(* generator.rs: the games.  What is kept of a rendered document is its    *)
(* template context; total_hours is kept as total_playtime, in minutes     *)
(* (the document prints total_playtime / 60.0).                            *)
(***************************************************************************)
RECURSIVE SumPlaytime(_)
\* library.iter().map(|g| g.playtime_forever).sum()
SumPlaytime(games) ==
    IF games = <<>> THEN 0
    ELSE games[1].playtime_forever + SumPlaytime(Tail(games))

\* GameLink
GameLinkOf(game) == [name |-> game.name, playtime_forever |-> game.playtime_forever]

\* Sorting the library itself instead of a clone of it.
SortedByPlaytime_InPlace(games) ==
    LET less == [i \in 1..Len(games) |-> [j \in 1..Len(games) |->
                    games[j].playtime_forever < games[i].playtime_forever]]
    IN  [sorted_games |-> StableSort(games, less),
         library |-> StableSort(games, less)]

\* generate_games_index: sorted_games = library.clone(), sorted by playtime
\* descending; [sorted_games, library], library as the sort leaves it.
SortedByPlaytime(games) ==
    LET less == [i \in 1..Len(games) |-> [j \in 1..Len(games) |->
                    games[j].playtime_forever < games[i].playtime_forever]]
    IN  [sorted_games |-> StableSort(games, less), library |-> games]

\* generate_games_index counting only the games with a name.
GenerateGamesIndex_SkipEmpty(games) ==
    LET named == SelectSeq(games, LAMBDA g : g.name # EmptyStr)
        less == [i \in 1..Len(named) |-> [j \in 1..Len(named) |->
                    named[j].playtime_forever < named[i].playtime_forever]]
        sorted_games == StableSort(named, less)
    IN  [game_count |-> Len(named),
         total_playtime |-> SumPlaytime(named),
         games |-> [i \in 1..Len(sorted_games) |-> GameLinkOf(sorted_games[i])]]

\* generate_games_index: the GamesIndexContext.
GenerateGamesIndex(games) ==
    LET sorted_games == SortedByPlaytime(games).sorted_games
    IN  [game_count |-> Len(games),
         total_playtime |-> SumPlaytime(games),
         games |-> [i \in 1..Len(sorted_games) |-> GameLinkOf(sorted_games[i])]]

\* generate_game_page: the GameContext.
GenerateGamePage(game) ==
    [game |-> game.name, appid |-> game.appid,
     playtime_forever |-> game.playtime_forever,
     rtime_last_played |-> game.rtime_last_played]

NoSite ==
    [index |-> [game_count |-> 0, total_playtime |-> 0, games |-> <<>>],
     pages |-> <<>>]

\* generate_games: [result, site, library], library the collection as the
\* call leaves it.  dirOk tells whether create_dir_all succeeds; the writes
\* that follow are taken to succeed.
GenerateGames(games, dirOk, oldSite) ==
    IF ~dirOk THEN [result |-> Err("io"), site |-> oldSite, library |-> games]
    ELSE LET after == SortedByPlaytime(games).library
             named == SelectSeq(after, LAMBDA g : ~game_is_empty(g))
         IN  [result |-> Ok(<<>>),
              library |-> after,
              site |-> [index |-> GenerateGamesIndex(games),
                        pages |-> [i \in 1..Len(named) |->
                                        GenerateGamePage(named[i])]]]

(***************************************************************************)
(* main.rs: the Steam block of main, if cli.steam { .. }.                  *)
(* [outcome, ops, file, net, cleared, fetched, site, games]: how the run   *)
(* ends ("ok", "error" for a returned Err, "panic"), the operations it     *)
(* called in order, the cache file and the number of HTTP calls after it,  *)
(* what clear_cache and fetch_library returned, the site, and main's games *)
(* as generate_games leaves them.                                          *)
(***************************************************************************)
\* main reading the environment variables with a default instead of expect.
MainSteam_NoEnvCheck(cli, osenv, file, env, dirOk, oldSite) ==
    LET idle == [outcome |-> "ok", ops |-> <<>>, file |-> file, net |-> 0,
                 cleared |-> NoResult, fetched |-> NoResult, site |-> oldSite,
                 games |-> <<>>]
        clr == IF cli.clear_steam_cache THEN ClearCache(file, env)
               ELSE [result |-> NoResult, file |-> file]
        ops1 == IF cli.clear_steam_cache THEN <<"clear_cache">> ELSE <<>>
        after1 == [idle EXCEPT !.ops = ops1, !.file = clr.file,
                               !.cleared = clr.result]
        got == FetchLibrary(clr.file, env)
        after2 == [after1 EXCEPT !.ops = Append(ops1, "fetch_library"),
                                 !.file = got.file, !.net = got.net,
                                 !.fetched = got.result]
        gen == GenerateGames(got.result.games, dirOk, oldSite)
    IN  IF ~cli.steam THEN idle
        ELSE IF clr.result.status = "err" THEN [after1 EXCEPT !.outcome = "error"]
        ELSE IF got.result.status = "err" THEN [after2 EXCEPT !.outcome = "error"]
        ELSE [after2 EXCEPT !.ops = Append(@, "generate_games"),
                            !.site = gen.site,
                            !.games = gen.library,
                            !.outcome = IF gen.result.status = "err"
                                        THEN "error" ELSE "ok"]

MainSteam(cli, osenv, file, env, dirOk, oldSite) ==
    LET idle == [outcome |-> "ok", ops |-> <<>>, file |-> file, net |-> 0,
                 cleared |-> NoResult, fetched |-> NoResult, site |-> oldSite,
                 games |-> <<>>]
        clr == IF cli.clear_steam_cache THEN ClearCache(file, env)
               ELSE [result |-> NoResult, file |-> file]
        ops1 == IF cli.clear_steam_cache THEN <<"clear_cache">> ELSE <<>>
        after1 == [idle EXCEPT !.ops = ops1, !.file = clr.file,
                               !.cleared = clr.result]
        got == FetchLibrary(clr.file, env)
        after2 == [after1 EXCEPT !.ops = Append(ops1, "fetch_library"),
                                 !.file = got.file, !.net = got.net,
                                 !.fetched = got.result]
        gen == GenerateGames(got.result.games, dirOk, oldSite)
    IN  IF ~cli.steam THEN idle
        ELSE IF clr.result.status = "err" THEN [after1 EXCEPT !.outcome = "error"]
        ELSE IF ~osenv.STEAM_API_KEY \/ ~osenv.STEAM_ID
             THEN [after1 EXCEPT !.outcome = "panic"]
        ELSE IF got.result.status = "err" THEN [after2 EXCEPT !.outcome = "error"]
        ELSE [after2 EXCEPT !.ops = Append(@, "generate_games"),
                            !.site = gen.site,
                            !.games = gen.library,
                            !.outcome = IF gen.result.status = "err"
                                        THEN "error" ELSE "ok"]

\* The command lines and the environment variables of a run.
Clis == [steam : BOOLEAN, clear_steam_cache : BOOLEAN]
OsEnvs == [STEAM_API_KEY : BOOLEAN, STEAM_ID : BOOLEAN]

NoRun ==
    [cli |-> [steam |-> FALSE, clear_steam_cache |-> FALSE],
     osenv |-> [STEAM_API_KEY |-> FALSE, STEAM_ID |-> FALSE],
     outcome |-> "none", ops |-> <<>>, cache0 |-> NoFile, fetches0 |-> 0,
     games |-> <<>>]

(***************************************************************************)
(* parse_file                                                              *)
(***************************************************************************)
ParserInit ==
    /\ tracks = <<>>
    /\ artists = <<>>
    /\ albums = <<>>
    /\ pc = "loop"
    /\ library = <<>>

SteamIdle ==
    /\ cache = NoFile
    /\ fetches = 0
    /\ result = NoResult
    /\ lastOp = "none"
    /\ entry = NoEntry

MainIdle ==
    /\ run = NoRun
    /\ site = NoSite

Init == ParserInit /\ SteamIdle /\ MainIdle

\* One iteration of the for loop on a record that is_empty: continue.
ParseFileSkip ==
    /\ pc = "loop"
    /\ Len(tracks) < MaxBatch
    /\ \E r \in Records :
        LET track == [r EXCEPT !.id = IdOf(Len(tracks) + 1)] IN
        /\ is_empty(track)
        /\ tracks' = Append(tracks, track)
    /\ UNCHANGED <<artists, albums, pc, library>>
    /\ UNCHANGED steamVars
    /\ UNCHANGED mainVars

\* One iteration of the for loop on any other record: process_track.
ParseFileProcess ==
    /\ pc = "loop"
    /\ Len(tracks) < MaxBatch
    /\ \E r \in Records :
        LET track == [r EXCEPT !.id = IdOf(Len(tracks) + 1)]
            after == ProcessTrack(track, artists, albums)
        IN  /\ ~is_empty(track)
            /\ tracks' = Append(tracks, track)
            /\ artists' = after[1]
            /\ albums' = after[2]
    /\ UNCHANGED <<pc, library>>
    /\ UNCHANGED steamVars
    /\ UNCHANGED mainVars

\* The end of the batch: Ok(self.artists.clone()).
ParseFileReturn ==
    /\ pc = "loop"
    /\ pc' = "done"
    /\ library' = artists
    /\ UNCHANGED <<tracks, artists, albums>>
    /\ UNCHANGED steamVars
    /\ UNCHANGED mainVars

Next == ParseFileSkip \/ ParseFileProcess \/ ParseFileReturn

Spec == Init /\ [][Next]_vars

(***************************************************************************)
(* parse_file on a batch of KeyRecords.                                    *)
(***************************************************************************)
\* One iteration of the for loop on a record that is_empty: continue.
KeyFileSkip ==
    /\ pc = "loop"
    /\ Len(tracks) < MaxBatch
    /\ \E r \in KeyRecords :
        LET track == [r EXCEPT !.id = IdOf(Len(tracks) + 1)] IN
        /\ is_empty(track)
        /\ tracks' = Append(tracks, track)
    /\ UNCHANGED <<artists, albums, pc, library>>
    /\ UNCHANGED steamVars
    /\ UNCHANGED mainVars

\* One iteration of the for loop on any other record: process_track.
KeyFileProcess ==
    /\ pc = "loop"
    /\ Len(tracks) < MaxBatch
    /\ \E r \in KeyRecords :
        LET track == [r EXCEPT !.id = IdOf(Len(tracks) + 1)]
            after == ProcessTrack(track, artists, albums)
        IN  /\ ~is_empty(track)
            /\ tracks' = Append(tracks, track)
            /\ artists' = after[1]
            /\ albums' = after[2]
    /\ UNCHANGED <<pc, library>>
    /\ UNCHANGED steamVars
    /\ UNCHANGED mainVars

KeyNext == KeyFileSkip \/ KeyFileProcess \/ ParseFileReturn

KeySpec == Init /\ [][KeyNext]_vars

(***************************************************************************)
(* The Steam operations, called one after the other (by successive runs).  *)
(***************************************************************************)
SteamInit ==
    /\ ParserInit
    /\ cache \in InitialFiles
    /\ fetches = 0
    /\ result = NoResult
    /\ lastOp = "none"
    /\ entry = NoEntry
    /\ MainIdle

\* client.fetch_library()
FetchLibraryCall ==
    /\ \E env \in Envs :
        LET out == FetchLibrary(cache, env) IN
        /\ fetches + out.net <= MaxFetches
        /\ cache' = out.file
        /\ fetches' = fetches + out.net
        /\ result' = out.result
        /\ entry' = [cache |-> cache, fetches |-> fetches, env |-> env]
    /\ lastOp' = "fetch_library"
    /\ UNCHANGED parserVars
    /\ UNCHANGED mainVars

\* SteamClient::clear_cache()
ClearCacheCall ==
    /\ \E env \in Envs :
        LET out == ClearCache(cache, env) IN
        /\ cache' = out.file
        /\ result' = out.result
        /\ entry' = [cache |-> cache, fetches |-> fetches, env |-> env]
    /\ lastOp' = "clear_cache"
    /\ UNCHANGED <<fetches>>
    /\ UNCHANGED parserVars
    /\ UNCHANGED mainVars

SteamNext == FetchLibraryCall \/ ClearCacheCall

SteamSpec == SteamInit /\ [][SteamNext]_vars

(***************************************************************************)
(* A run of main without a music input, over the cache file it finds.      *)
(***************************************************************************)
MainInit ==
    /\ ParserInit
    /\ cache \in InitialFiles
    /\ fetches = 0
    /\ result = NoResult
    /\ lastOp = "none"
    /\ entry = NoEntry
    /\ MainIdle

\* main, from its start to its exit: the process runs it once.
MainRun ==
    /\ run = NoRun
    /\ \E cli \in Clis, osenv \in OsEnvs, env \in Envs, dirOk \in BOOLEAN :
        LET out == MainSteam(cli, osenv, cache, env, dirOk, site)
            fetched == \E k \in 1..Len(out.ops) : out.ops[k] = "fetch_library"
            cleared == \E k \in 1..Len(out.ops) : out.ops[k] = "clear_cache"
        IN  /\ cache' = out.file
            /\ fetches' = fetches + out.net
            /\ site' = out.site
            /\ run' = [cli |-> cli, osenv |-> osenv, outcome |-> out.outcome,
                       ops |-> out.ops, cache0 |-> cache, fetches0 |-> fetches,
                       games |-> out.games]
            /\ result' = IF fetched THEN out.fetched
                         ELSE IF cleared THEN out.cleared ELSE result
            /\ lastOp' = IF fetched THEN "fetch_library"
                         ELSE IF cleared THEN "clear_cache" ELSE lastOp
            /\ entry' = IF fetched
                        THEN [cache |-> IF cleared
                                        THEN ClearCache(cache, env).file
                                        ELSE cache,
                              fetches |-> fetches, env |-> env]
                        ELSE IF cleared
                        THEN [cache |-> cache, fetches |-> fetches, env |-> env]
                        ELSE entry
    /\ UNCHANGED parserVars

MainNext == MainRun

MainSpec == MainInit /\ [][MainNext]_vars

(***************************************************************************)
(* Vocabulary of the properties                                            *)
(***************************************************************************)
\* The records of the batch that reached process_track and were not dropped
\* there, as indices of tracks.
Processed ==
    {i \in 1..Len(tracks) :
        ~is_empty(tracks[i]) /\ ArtistName(tracks[i]) # EmptyStr}

\* Whether a sequence is ordered under a strict comparison.
IsSorted(s, Less(_, _)) ==
    \A i, j \in 1..Len(s) : i < j => ~Less(s[j], s[i])

\* The places of a library where a record is found: <<artist, 0, k>> is
\* position k of the artist's loose tracks, <<artist, j, k>> position k of
\* the artist's j-th album.
PlacesIn(lib, r) ==
    UNION { {<<n, 0, k>> : k \in {k \in 1..Len(lib[n].tracks) :
                                        lib[n].tracks[k] = r}}
            \cup
            UNION { {<<n, j, k>> : k \in {k \in 1..Len(lib[n].albums[j].tracks) :
                                        lib[n].albums[j].tracks[k] = r}}
                    : j \in 1..Len(lib[n].albums) }
          : n \in DOMAIN lib }

\* Every Album held by some artist of a library.
OwnedAlbums(lib) ==
    UNION { {lib[n].albums[j] : j \in 1..Len(lib[n].albums)} : n \in DOMAIN lib }

\* The side-index key of an Album.
KeyOfAlbum(a) == a.id \o Dash \o a.title

(***************************************************************************)
(* C1: at the end of the batch every Album of every artist's album list    *)
(* equals the side-index Album stored under albumId + "-" + title.         *)
(* The code leaves a stale copy with the first artist when a second artist *)
(* adds a record to the same album key.                                    *)
(***************************************************************************)
C1_ArtistCopiesMatchIndex ==
    pc = "done" =>
        \A a \in OwnedAlbums(library) :
            KeyOfAlbum(a) \in DOMAIN albums /\ albums[KeyOfAlbum(a)] = a

(***************************************************************************)
(* C2: a record whose title or artist is empty appears nowhere in the      *)
(* returned library and creates no artist; a batch of invalid records only *)
(* returns a library with zero artists.  The code drops a record only when *)
(* title and artist are both empty.                                        *)
(***************************************************************************)
IsValidRecord(r) == r.title # EmptyStr /\ r.artist # EmptyStr

C2_InvalidRecordsDropped ==
    pc = "done" =>
        /\ \A i \in 1..Len(tracks) :
            ~IsValidRecord(tracks[i]) => PlacesIn(library, tracks[i]) = {}
        /\ (\A i \in 1..Len(tracks) : ~IsValidRecord(tracks[i]))
                => DOMAIN library = {}

(***************************************************************************)
(* C3: at the end of the batch, for every processed record with an album,  *)
(* the album list of its resolved artist holds an album with the record's  *)
(* albumId and album title.  The code overwrites the artist's slot of the  *)
(* same albumId when the title differs.                                    *)
(***************************************************************************)
C3_EveryAlbumKeyPresent ==
    pc = "done" =>
        \A i \in Processed :
            has_album(tracks[i]) =>
                \E a \in OwnedAlbums([n \in {ArtistName(tracks[i])} |-> library[n]]) :
                    a.id = tracks[i].album_id /\ a.title = tracks[i].album

(***************************************************************************)
(* C4: after every processed record every artist's album list is sorted by *)
(* (year, title).  The replace-slot branch does not sort.                  *)
(***************************************************************************)
C4_AlbumListsSorted ==
    \A n \in DOMAIN artists : IsSorted(artists[n].albums, AlbumLess)

(***************************************************************************)
(* C5: after every processed record the track list of every Album, in the  *)
(* side-index and in every artist's album list, is sorted by (disc, track) *)
(* where a disc that is no number counts 1 and a track that is no number   *)
(* counts 0.                                                               *)
(***************************************************************************)
C5_Number(s, default) ==
    LET parsed == ParseU32(s) IN IF parsed.ok THEN parsed.val ELSE default

C5_Less(a, b) ==
    \/ C5_Number(a.disc, 1) < C5_Number(b.disc, 1)
    \/ /\ C5_Number(a.disc, 1) = C5_Number(b.disc, 1)
       /\ C5_Number(a.track, 0) < C5_Number(b.track, 0)

C5_AlbumTracksSorted ==
    /\ \A k \in DOMAIN albums : IsSorted(albums[k].tracks, C5_Less)
    /\ \A a \in OwnedAlbums(artists) : IsSorted(a.tracks, C5_Less)
    /\ \A a \in OwnedAlbums(library) : IsSorted(a.tracks, C5_Less)

\* Two records of one album arrived as track 2 then track 1 and are held as
\* track 1, track 2, in the side-index and in the artist's copy.
C5_Witness ==
    \E a \in OwnedAlbums(artists) :
        /\ albums[KeyOfAlbum(a)] = a
        /\ Len(a.tracks) = 2
        /\ a.tracks[1].id = IdOf(2) /\ a.tracks[1].track = Str1
        /\ a.tracks[2].id = IdOf(1) /\ a.tracks[2].track = Str2
        /\ a.tracks[1].disc = Str1 /\ a.tracks[2].disc = EmptyStr

(***************************************************************************)
(* C6: in the returned library every processed record is found in exactly  *)
(* one place: one album of one artist, or one artist's loose tracks.       *)
(***************************************************************************)
C6_ExclusiveOwnership ==
    pc = "done" =>
        \A i \in Processed : Cardinality(PlacesIn(library, tracks[i])) = 1

(***************************************************************************)
(* C7: every processed record is found under the library key equal to its  *)
(* resolved artist name (albumArtist when non-empty, artist otherwise) and *)
(* under no other key.                                                     *)
(***************************************************************************)
C7_ResolvedName(r) == IF r.albumartist # EmptyStr THEN r.albumartist ELSE r.artist

C7_FiledUnderResolvedArtist ==
    pc = "done" =>
        \A i \in Processed :
            /\ \E p \in PlacesIn(library, tracks[i]) : p[1] = C7_ResolvedName(tracks[i])
            /\ \A p \in PlacesIn(library, tracks[i]) : p[1] = C7_ResolvedName(tracks[i])

(***************************************************************************)
(* C8: after every processed record every artist's loose-track list is     *)
(* sorted by title, and every processed record without an album is in the  *)
(* loose-track list of its resolved artist and in no other loose-track     *)
(* list and in no album.                                                   *)
(***************************************************************************)
C8_TitleLess(a, b) == StrLess(a.title, b.title)

C8_LooseTracksSorted ==
    /\ \A n \in DOMAIN artists : IsSorted(artists[n].tracks, C8_TitleLess)
    /\ \A n \in DOMAIN library : IsSorted(library[n].tracks, C8_TitleLess)
    /\ \A i \in Processed :
        ~has_album(tracks[i]) =>
            /\ \E k \in 1..Len(artists[ArtistName(tracks[i])].tracks) :
                    PlacesIn(artists, tracks[i]) = {<<ArtistName(tracks[i]), 0, k>>}
            /\ \A key \in DOMAIN albums :
                    \A k \in 1..Len(albums[key].tracks) :
                        albums[key].tracks[k] # tracks[i]

\* An artist holds two loose tracks in title order, the reverse of their
\* arrival.
C8_Witness ==
    \E n \in DOMAIN artists :
        /\ Len(artists[n].tracks) = 2
        /\ artists[n].tracks[1].id = IdOf(2)
        /\ artists[n].tracks[2].id = IdOf(1)
        /\ StrLess(artists[n].tracks[1].title, artists[n].tracks[2].title)

(***************************************************************************)
(* C9: when the cache file exists at the start of fetch_library, no HTTP   *)
(* call is made, the cache is left as it was, and the games returned are   *)
(* the objects of the cache, one game per object with every field the      *)
(* object holds (an error is returned when the file cannot be opened or is *)
(* no array of games); an HTTP call is made only when the cache is absent. *)
(***************************************************************************)
C9_GamesAre(games, items) ==
    /\ Len(games) = Len(items)
    /\ \A i \in 1..Len(items) :
        \A f \in DOMAIN items[i] : games[i][f] = items[i][f]

C9_Readable(file, env) ==
    /\ env.open
    /\ file.doc.kind = "array"
    /\ \A i \in 1..Len(file.doc.items) :
        {"appid", "name", "playtime_forever", "rtime_last_played"}
            \subseteq DOMAIN file.doc.items[i]

C9_CachedMeansNoFetch ==
    lastOp = "fetch_library" =>
        /\ entry.cache.exists =>
            /\ fetches = entry.fetches
            /\ cache = entry.cache
            /\ IF C9_Readable(entry.cache, entry.env)
               THEN /\ result.status = "ok"
                    /\ C9_GamesAre(result.games, entry.cache.doc.items)
               ELSE result.status = "err"
        /\ fetches # entry.fetches => ~entry.cache.exists

\* fetch_library found the cache an earlier fetch_library wrote and returned
\* its two games.
C9_Witness ==
    /\ lastOp = "fetch_library"
    /\ entry.cache.exists
    /\ entry.fetches = 1
    /\ result.status = "ok"
    /\ Len(result.games) = 2

(***************************************************************************)
(* C10: when the cache is absent and the fetch fails (the HTTP call fails, *)
(* or its body is not the expected JSON), fetch_library returns an error,  *)
(* the cache is still absent, and exactly one HTTP call was made.          *)
(***************************************************************************)
C10_FetchFails(resp) ==
    \/ resp.status # "ok"
    \/ resp.body.kind # "envelope"
    \/ \E i \in 1..Len(resp.body.items) :
        ~({"appid", "name", "playtime_forever", "rtime_last_played"}
            \subseteq DOMAIN resp.body.items[i])

C10_FailedFetchLeavesNoCache ==
    (/\ lastOp = "fetch_library"
     /\ ~entry.cache.exists
     /\ C10_FetchFails(entry.env.resp))
        => /\ result.status = "err"
           /\ ~cache.exists
           /\ cache = entry.cache
           /\ fetches = entry.fetches + 1

\* fetch_library found no cache and the HTTP call failed.
C10_Witness ==
    /\ lastOp = "fetch_library"
    /\ ~entry.cache.exists
    /\ entry.env.resp.status = "error"
    /\ result.status = "err"
    /\ fetches = entry.fetches + 1

(***************************************************************************)
(* C11: when the cache is absent and the fetch succeeds, the cache file is *)
(* written as the array of the fetched games, every field of every game    *)
(* as fetched; and a fetch_library that follows and can open the file      *)
(* makes no HTTP call, leaves the file alone and returns the same games.   *)
(***************************************************************************)
C11_Fields ==
    {"appid", "name", "playtime_forever", "img_icon_url", "rtime_last_played",
     "playtime_linux_forever", "playtime_deck_forever"}

C11_Verbatim(doc, games) ==
    /\ doc.kind = "array"
    /\ Len(doc.items) = Len(games)
    /\ \A i \in 1..Len(games) :
        /\ DOMAIN doc.items[i] = C11_Fields
        /\ \A f \in C11_Fields : doc.items[i][f] = games[i][f]

C11_FetchedAndSaved ==
    /\ lastOp = "fetch_library"
    /\ ~entry.cache.exists
    /\ result.status = "ok"

C11_SaveThenLoad ==
    /\ [](C11_FetchedAndSaved =>
            cache.exists /\ C11_Verbatim(cache.doc, result.games))
    /\ [][(/\ C11_FetchedAndSaved
           /\ lastOp' = "fetch_library"
           /\ entry'.env.open)
            => (/\ result' = result
                /\ fetches' = fetches
                /\ cache' = cache)]_vars

\* The second fetch_library after a fetch of the one game {appid 10, name,
\* playtime_forever 120}: no further HTTP call, the same game, 120 minutes
\* (2 hours of 60) of playtime.
C11_Witness ==
    /\ lastOp = "fetch_library"
    /\ entry.cache.exists
    /\ entry.fetches = 1 /\ fetches = 1
    /\ result.status = "ok"
    /\ Len(result.games) = 1
    /\ result.games[1].appid = 10
    /\ result.games[1].playtime_forever = 2 * 60
    /\ C11_Verbatim(cache.doc, result.games)

(***************************************************************************)
(* C13: loose tracks are not deduplicated: the length of an artist's       *)
(* loose-track list is the number of processed records without an album    *)
(* that resolved to that artist, and each of them has an artist entry.     *)
(***************************************************************************)
C13_LooseOf(n) ==
    {i \in Processed :
        tracks[i].album = EmptyStr /\ C7_ResolvedName(tracks[i]) = n}

C13_LooseTracksNotDeduplicated ==
    /\ \A n \in DOMAIN artists :
        Len(artists[n].tracks) = Cardinality(C13_LooseOf(n))
    /\ \A i \in Processed : C7_ResolvedName(tracks[i]) \in DOMAIN artists
    /\ pc = "done" =>
        \A n \in DOMAIN library :
            Len(library[n].tracks) = Cardinality(C13_LooseOf(n))

\* Two records with the same title and artist and no album: the artist's
\* loose-track list holds both.
C13_Witness ==
    /\ pc = "done"
    /\ Len(tracks) = 2
    /\ tracks[1].title = tracks[2].title
    /\ tracks[1].artist = StrX /\ tracks[2].artist = StrX
    /\ StrX \in DOMAIN library
    /\ Len(library[StrX].tracks) = 2
    /\ library[StrX].tracks[1] = tracks[1]
    /\ library[StrX].tracks[2] = tracks[2]

(***************************************************************************)
(* C14: the year, genre and trackTotal of an Album are those of the first  *)
(* processed record of its key (trackTotal 0 when that record's tracktotal *)
(* is no number), whatever the later records of the key carry; each record *)
(* of the key adds one track.  The copies in the artists' album lists      *)
(* carry the same three fields.                                            *)
(***************************************************************************)
C14_RecordsOf(key) ==
    {i \in Processed :
        /\ tracks[i].album # EmptyStr
        /\ tracks[i].album_id \o Dash \o tracks[i].album = key}

C14_Creator(key) ==
    tracks[CHOOSE i \in C14_RecordsOf(key) : \A j \in C14_RecordsOf(key) : i <= j]

C14_SeededFrom(album, r) ==
    /\ album.year = r.year
    /\ album.genre = r.genre
    /\ album.tracktotal = C5_Number(r.tracktotal, 0)

C14_SeededOnce ==
    /\ \A key \in DOMAIN albums :
        /\ C14_RecordsOf(key) # {}
        /\ C14_SeededFrom(albums[key], C14_Creator(key))
        /\ Len(albums[key].tracks) = Cardinality(C14_RecordsOf(key))
    /\ \A a \in OwnedAlbums(artists) :
        C14_SeededFrom(a, C14_Creator(KeyOfAlbum(a)))

\* An album created by a record with year "" and a tracktotal that is no
\* number holds a later record with year "2", genre "g" and tracktotal "5".
C14_Witness ==
    \E key \in DOMAIN albums :
        /\ Len(albums[key].tracks) = 2
        /\ C14_Creator(key).id = IdOf(1)
        /\ C14_Creator(key).tracktotal = StrBad
        /\ albums[key].tracktotal = 0
        /\ albums[key].year = EmptyStr
        /\ albums[key].genre = EmptyStr
        /\ \E k \in 1..2 :
            /\ albums[key].tracks[k].id = IdOf(2)
            /\ albums[key].tracks[k].year = Str2
            /\ albums[key].tracks[k].genre = StrG
            /\ albums[key].tracks[k].tracktotal = Str5

(***************************************************************************)
(* C15.  In a run of main that requests the game library (cli.steam), a    *)
(* missing STEAM_API_KEY or STEAM_ID aborts the run before any network     *)
(* call: the run does not end normally, fetch_library is never called and  *)
(* the number of HTTP calls is the one the run started with.               *)
(***************************************************************************)
C15_Called(op) == \E k \in 1..Len(run.ops) : run.ops[k] = op

C15_MissingConfig ==
    /\ run.outcome # "none"
    /\ run.cli.steam
    /\ ~run.osenv.STEAM_API_KEY \/ ~run.osenv.STEAM_ID

\* The run ends in the panic of expect, unless --clear-steam-cache was given
\* and clear_cache failed first, which ends it with that error.
C15_MissingConfigAbortsBeforeFetch ==
    C15_MissingConfig =>
        /\ run.outcome \in {"panic", "error"}
        /\ run.outcome = "error" =>
              C15_Called("clear_cache") /\ result.status = "err"
        /\ ~C15_Called("fetch_library")
        /\ ~C15_Called("generate_games")
        /\ fetches = run.fetches0
        /\ site = NoSite

\* The account id is missing and no cache file exists: with the id present
\* this run would have gone to the network.
C15_Witness ==
    /\ C15_MissingConfig
    /\ run.osenv.STEAM_API_KEY
    /\ ~run.osenv.STEAM_ID
    /\ ~run.cache0.exists
    /\ run.outcome = "panic"

(***************************************************************************)
(* C16.  A game is empty iff its name is empty.  After a run of main that  *)
(* generated the games, the pages are those of the fetched games with a    *)
(* non-empty name, in order, while the game count and the total playtime   *)
(* of the index are taken over all the fetched games, the empty ones too.  *)
(***************************************************************************)
C16_Generated ==
    /\ run.outcome = "ok"
    /\ \E k \in 1..Len(run.ops) : run.ops[k] = "generate_games"

C16_Named(games) == SelectSeq(games, LAMBDA g : g.name # EmptyStr)

RECURSIVE C16_Minutes(_, _)
C16_Minutes(games, n) ==
    IF n = 0 THEN 0 ELSE C16_Minutes(games, n - 1) + games[n].playtime_forever

C16_EmptyGamesCountedButNotPaged ==
    C16_Generated =>
        /\ \A k \in 1..Len(result.games) :
              game_is_empty(result.games[k]) <=> Len(result.games[k].name) = 0
        /\ Len(site.pages) = Len(C16_Named(result.games))
        /\ \A k \in 1..Len(site.pages) :
              /\ site.pages[k].game = C16_Named(result.games)[k].name
              /\ site.pages[k].appid = C16_Named(result.games)[k].appid
              /\ site.pages[k].game # EmptyStr
        /\ site.index.game_count = Len(result.games)
        /\ site.index.total_playtime = C16_Minutes(result.games, Len(result.games))
        /\ Len(site.index.games) = Len(result.games)

\* A library with a named game and an unnamed one was generated.
C16_Witness ==
    /\ C16_Generated
    /\ \E k \in 1..Len(result.games) : result.games[k].name = EmptyStr
    /\ \E k \in 1..Len(result.games) : result.games[k].name # EmptyStr
    /\ \E k \in 1..Len(result.games) :
          result.games[k].name = EmptyStr /\ result.games[k].playtime_forever > 0
    /\ Len(site.pages) < site.index.game_count

(***************************************************************************)
(* C17.  The key albumId + "-" + album is injective on (albumId, album):   *)
(* two processed records whose (albumId, album) pairs differ are never     *)
(* tracks of the same side-index Album.  The code concatenates the two     *)
(* strings, so ("1-", "Y") and ("1", "-Y") both give the key "1--Y".       *)
(***************************************************************************)
C17_KeyInjective ==
    \A key \in DOMAIN albums :
        \A i, j \in 1..Len(albums[key].tracks) :
            LET r1 == albums[key].tracks[i]
                r2 == albums[key].tracks[j]
            IN  r1.album_id = r2.album_id /\ r1.album = r2.album

(***************************************************************************)
(* C18.  Records with a non-empty album and an empty albumId: at the end   *)
(* of the batch every such processed record is a track of the side-index   *)
(* Album under "-" + album, and the artist it resolves to has an Album of  *)
(* that key in its album list.  The code finds an artist's copy by id      *)
(* alone, so an artist's second album with an empty id takes the place of  *)
(* the first one.                                                          *)
(***************************************************************************)
C18_EmptyId == {i \in Processed : tracks[i].album # EmptyStr /\ tracks[i].album_id = EmptyStr}

C18_EmptyIdAlbumsShared ==
    pc = "done" =>
        \A i \in C18_EmptyId :
            LET key == Dash \o tracks[i].album
                owner == library[ArtistName(tracks[i])]
            IN  /\ key \in DOMAIN albums
                /\ \E k \in 1..Len(albums[key].tracks) : albums[key].tracks[k] = tracks[i]
                /\ \E j \in 1..Len(owner.albums) : KeyOfAlbum(owner.albums[j]) = key

(***************************************************************************)
(* C19.  A record with a title whose artist and albumartist are both       *)
(* empty is dropped without error: the iteration that reads it leaves the  *)
(* artist map and the album side index as they were and the loop goes on,  *)
(* and every record processed after it is filed in the maps.               *)
(***************************************************************************)
C19_Unattributable(r) ==
    r.title # EmptyStr /\ r.artist = EmptyStr /\ r.albumartist = EmptyStr

C19_Filed(r) ==
    IF r.album # EmptyStr
    THEN /\ AlbumKey(r) \in DOMAIN albums
         /\ \E k \in 1..Len(albums[AlbumKey(r)].tracks) :
                albums[AlbumKey(r)].tracks[k] = r
    ELSE /\ ArtistName(r) \in DOMAIN artists
         /\ \E k \in 1..Len(artists[ArtistName(r)].tracks) :
                artists[ArtistName(r)].tracks[k] = r

C19_ReadsUnattributable ==
    /\ Len(tracks') = Len(tracks) + 1
    /\ C19_Unattributable(tracks'[Len(tracks')])

C19_LaterRecordsFiled ==
    /\ pc \in {"loop", "done"}
    /\ \A i, j \in 1..Len(tracks) :
          (i < j /\ C19_Unattributable(tracks[i]) /\ j \in Processed)
              => C19_Filed(tracks[j])

C19_UnattributableDropped ==
    /\ []C19_LaterRecordsFiled
    /\ [][C19_ReadsUnattributable =>
            (artists' = artists /\ albums' = albums /\ pc' = "loop")]_vars

\* The first record was dropped, the second one processed and filed, and
\* the maps hold nothing of the first.
C19_Witness ==
    /\ Len(tracks) >= 2
    /\ C19_Unattributable(tracks[1])
    /\ 2 \in Processed
    /\ C19_Filed(tracks[2])
    /\ DOMAIN artists = {ArtistName(tracks[2])}

(***************************************************************************)
(* C20.  At the end of the batch every Album of an artist's album list has *)
(* that artist's name as its artist attribute.  The code sets the          *)
(* attribute once, from the record that creates the side-index Album, and  *)
(* clones that Album into the list of every artist that adds to its key.   *)
(***************************************************************************)
C20_AlbumArtistIsOwner ==
    pc = "done" =>
        \A n \in DOMAIN library :
            /\ library[n].name = n
            /\ \A j \in 1..Len(library[n].albums) :
                  library[n].albums[j].artist = library[n].name

(***************************************************************************)
(* C21.  The clear operation.  In a run of main, clear_cache is called     *)
(* only when the game library is requested, once, and before               *)
(* fetch_library.  When it succeeds on an existing cache file the cache is *)
(* absent afterwards: the fetch_library of the run finds no file and makes *)
(* exactly one HTTP call, and a run that ends before it leaves no file.    *)
(* On an absent cache it succeeds and changes nothing.  When the removal   *)
(* fails the run ends with the error and the file is as it was.            *)
(***************************************************************************)
C21_Called(op) == \E k \in 1..Len(run.ops) : run.ops[k] = op

C21_ClearOk ==
    /\ C21_Called("clear_cache")
    /\ ~(run.outcome = "error" /\ Len(run.ops) = 1)

C21_ClearThenFetchOnce ==
    run.outcome # "none" =>
        /\ C21_Called("clear_cache") <=>
              (run.cli.steam /\ run.cli.clear_steam_cache)
        /\ C21_Called("clear_cache") =>
              /\ run.ops[1] = "clear_cache"
              /\ \A k \in 2..Len(run.ops) : run.ops[k] # "clear_cache"
        /\ (C21_ClearOk /\ run.cache0.exists) =>
              IF C21_Called("fetch_library")
              THEN /\ entry.cache = NoFile
                   /\ fetches = run.fetches0 + 1
              ELSE /\ cache = NoFile
                   /\ fetches = run.fetches0
        /\ (C21_Called("clear_cache") /\ ~run.cache0.exists) =>
              /\ C21_ClearOk
              /\ IF C21_Called("fetch_library")
                 THEN entry.cache = run.cache0
                 ELSE cache = run.cache0
        /\ (C21_Called("clear_cache") /\ ~C21_ClearOk) =>
              /\ cache = run.cache0
              /\ fetches = run.fetches0
              /\ result.status = "err"

\* A readable cache was cleared, and the run fetched the library once and
\* generated the games from it.
C21_Witness ==
    /\ C21_ClearOk
    /\ run.cache0.exists
    /\ run.cache0.doc.kind = "array"
    /\ C21_Called("fetch_library")
    /\ fetches = run.fetches0 + 1
    /\ run.outcome = "ok"

(***************************************************************************)
(* C22.  The derived game views are read-only.  After a run of main that   *)
(* generated the games, the index lists every fetched game once, ordered   *)
(* by playtime descending, its total playtime is the sum over all of them, *)
(* and the collection main handed to generate_games is still the fetched   *)
(* one, in its order and with its content.                                 *)
(***************************************************************************)
C22_Generated ==
    /\ run.outcome # "none"
    /\ \E k \in 1..Len(run.ops) : run.ops[k] = "generate_games"
    /\ site # NoSite

RECURSIVE C22_Total(_)
C22_Total(games) ==
    IF Len(games) = 0 THEN 0
    ELSE games[Len(games)].playtime_forever
            + C22_Total(SubSeq(games, 1, Len(games) - 1))

C22_Link(game) == [name |-> game.name, playtime_forever |-> game.playtime_forever]

C22_ViewsReadOnly ==
    C22_Generated =>
        /\ run.games = result.games
        /\ Len(site.index.games) = Len(result.games)
        /\ \A i, j \in 1..Len(site.index.games) :
              i < j => site.index.games[i].playtime_forever
                          >= site.index.games[j].playtime_forever
        /\ \A l \in {C22_Link(result.games[k]) : k \in 1..Len(result.games)} :
              Cardinality({k \in 1..Len(result.games) : C22_Link(result.games[k]) = l})
                = Cardinality({k \in 1..Len(site.index.games) : site.index.games[k] = l})
        /\ site.index.total_playtime = C22_Total(result.games)

\* The fetched games were not in playtime order: the index lists them in
\* another order than the collection holds them.
C22_Witness ==
    /\ C22_Generated
    /\ Len(result.games) = 2
    /\ result.games[1].playtime_forever < result.games[2].playtime_forever
    /\ site.index.games[1].name = result.games[2].name
    /\ run.games = result.games

(***************************************************************************)
(* C23.  After any sequence of records no artist's album list holds two    *)
(* albums with the same albumId.  The code looks for the slot under the    *)
(* record's album_id but stores the side-index Album, whose id is that of  *)
(* the record that created the key: when the two differ under one key, the *)
(* Album is pushed a second time.                                          *)
(***************************************************************************)
C23_AlbumIdsDistinct ==
    \A n \in DOMAIN artists :
        \A i, j \in 1..Len(artists[n].albums) :
            i # j => artists[n].albums[i].id # artists[n].albums[j].id

(***************************************************************************)
(* C24.  The side index and the loose tracks conserve the records: in      *)
(* every state the tracks of all side-index Albums and the loose tracks of *)
(* all artists are as many as the records processed so far, every          *)
(* processed record with an album is a track, once, of the side-index      *)
(* Album of its own key and of no other, and no step removes an artist     *)
(* name or an album key.                                                   *)
(***************************************************************************)
RECURSIVE C24_AlbumTracks(_)
C24_AlbumTracks(keys) ==
    IF keys = {} THEN 0
    ELSE LET key == CHOOSE k \in keys : TRUE
         IN  Len(albums[key].tracks) + C24_AlbumTracks(keys \ {key})

RECURSIVE C24_LooseTracks(_)
C24_LooseTracks(names) ==
    IF names = {} THEN 0
    ELSE LET name == CHOOSE n \in names : TRUE
         IN  Len(artists[name].tracks) + C24_LooseTracks(names \ {name})

C24_TimesIn(key, r) ==
    Cardinality({k \in 1..Len(albums[key].tracks) : albums[key].tracks[k] = r})

C24_Conserved ==
    /\ C24_AlbumTracks(DOMAIN albums) + C24_LooseTracks(DOMAIN artists)
          = Cardinality(Processed)
    /\ \A i \in Processed :
          tracks[i].album # EmptyStr =>
              /\ AlbumKey(tracks[i]) \in DOMAIN albums
              /\ \A key \in DOMAIN albums :
                    C24_TimesIn(key, tracks[i])
                        = IF key = AlbumKey(tracks[i]) THEN 1 ELSE 0

C24_TracksConserved ==
    /\ []C24_Conserved
    /\ [][/\ DOMAIN artists \subseteq DOMAIN artists'
          /\ DOMAIN albums \subseteq DOMAIN albums']_vars

\* Two records of one album and a loose one, all three processed.
C24_Witness ==
    /\ pc = "done"
    /\ Cardinality(Processed) = 3
    /\ \E key \in DOMAIN albums : Len(albums[key].tracks) = 2
    /\ \E n \in DOMAIN artists : Len(artists[n].tracks) = 1
    /\ C24_Conserved

(***************************************************************************)
(* C25.  Whenever fetch_library returns an error the cache file is, in     *)
(* presence and content, what it was before the call.  The code creates    *)
(* the file before it writes the text: when write_all fails the call       *)
(* returns the error and leaves the created file with a part of the text.  *)
(***************************************************************************)
C25_FailedCallLeavesCacheAsBefore ==
    (lastOp = "fetch_library" /\ result.status = "err") => cache = entry.cache

====
